---- MODULE Spec2Model ----
(***************************************************************************)
(* Model of the classic-movie curation pipeline of vimeo-scraper:          *)
(*   ComprehensiveMovieFinder.run_full_pipeline  (comprehensive_movie_finder.py) *)
(*   VimeoMovieFinder.search_videos              (vimeo_old_movies_finder.py)    *)
(*   AIMovieVerifier.verify_full_pipeline        (ai_powered_movie_verifier.py)  *)
(*   TMDbVerifier.batch_verify / verify_movie    (tmdb_verifier.py)              *)
(*                                                                         *)
(* A video is a Python dict: here a function from field names to values,   *)
(* whose DOMAIN grows as stages attach fields (dict.update).  Text is a    *)
(* sequence of one-character strings.  Confidences in [0,1] are held in    *)
(* tenths (0.7 is 7), TMDb confidences and final scores in tenths of a     *)
(* point (70 is 700), title similarities in hundredths (0.85 is 85).       *)
(* One step of the model is one external call together with the code that  *)
(* runs up to the next external call, or one call-free stage.              *)
(***************************************************************************)
EXTENDS Integers, Sequences, FiniteSets, TLC

VARIABLES
    env,              \* main: what os.getenv gives for each credential
    reported,         \* history: the names main printed as missing
    pc,               \* control point of run_full_pipeline / verify_full_pipeline
    entry,            \* "pipeline": run_full_pipeline; "verifier": verify_full_pipeline called directly
    qi,               \* stage1_vimeo_search: 1-based index of the query being searched
    sv_videos,        \* search_videos: local list `videos` of the running query
    page,             \* search_videos: local `page`
    all_videos,       \* stage1_vimeo_search: local `all_videos`
    seen_urls,        \* stage1_vimeo_search: local `seen_urls`
    videos,           \* the list the running stage received (`videos` / `results`)
    enhanced_videos,  \* classifier sub-stage: local `enhanced_videos`; batch_verify: `results`
    bi,               \* classifier sub-stage: loop variable i (0-based start of the batch)
    skip_stage1,      \* verify_full_pipeline argument
    skip_stage2,      \* verify_full_pipeline argument
    orig_len,         \* verify_full_pipeline: len(videos) of its argument
    outcome,          \* what the entry point gave back: still running, returned `value`,
                      \* or raised `error`
    failed_urls,      \* history: urls of the candidates whose batch call failed in the running sub-stage
    short_urls,       \* history: urls of the candidates whose batch got a wrong number of verdicts
    last_fetch,       \* history: kind of the last page response, and the page asked for
                      \* (of the scraper: and the links of the page)
    last_lookup,      \* history: the year hint of the last title search and, when
                      \* batch_verify is run alone, what search_movie answered for
                      \* the last video verified, whether its details were fetched,
                      \* and what get_movie_details answered
    encountered,      \* history, when stage1_vimeo_search is run alone: of the records
                      \* search_videos returned so far, those that came first for
                      \* their url, in query order then result order
    calls,            \* history: number of external calls issued, per collaborator and stage
    stage_log         \* history: per stage that returned, the urls of the list it was
                      \* given and of the list it returned

vars == <<env, reported, pc, entry, qi, sv_videos, page, all_videos, seen_urls, videos,
          enhanced_videos, bi, skip_stage1, skip_stage2, orig_len, outcome,
          failed_urls, short_urls, last_fetch, encountered, calls, stage_log, last_lookup>>

----------------------------------------------------------------------------
(* Bounds of the model *)

NumQueries == 2        \* len(queries) of stage1_vimeo_search
PerQueryResults == 2   \* config["per_query_results"] (5 in the source), per_page = max_results
BatchSize1 == 2        \* batch_size of stage1_content_type_detection (10 in the source)
BatchSize2 == 2        \* batch_size of stage2_feature_film_analysis (8 in the source)
BatchSize3 == 2        \* batch_size of stage3_era_studio_verification (8 in the source)
MaxExtra == 1          \* verdicts a response may hold beyond the batch length
MaxInput == 3          \* len(videos) when verify_full_pipeline is called directly
MaxScored == 2         \* len(videos) when stage5_scoring_ranking is called directly
MaxMatches == 1        \* len(results) of a TMDb title search

(* Program constants *)

min_duration == 2700
max_duration == 10800
min_tmdb_confidence == 700

None == 0 - 1          \* Python None in an integer-valued field

----------------------------------------------------------------------------
(* Generic helpers *)

Has(v, k) == k \in DOMAIN v

\* dict.get(k, default)
Get(v, k, default) == IF k \in DOMAIN v THEN v[k] ELSE default

\* dict.update(other): keys of other win
Update(v, other) == [k \in (DOMAIN v) \cup (DOMAIN other) |->
                        IF k \in DOMAIN other THEN other[k] ELSE v[k]]

Min(a, b) == IF a < b THEN a ELSE b

Range(s) == {s[i] : i \in 1..Len(s)}

Take(s, n) == SubSeq(s, 1, Min(n, Len(s)))

SeqsUpTo(S, n) == UNION {[1..k -> S] : k \in 0..n}

Urls(s) == {s[i].url : i \in 1..Len(s)}

\* the identity keys of a list of videos, in order
UrlSeq(s) == [i \in 1..Len(s) |-> s[i].url]

\* s is t with some elements left out, the others in t's order
RECURSIVE IsSubseq(_, _)
IsSubseq(s, t) ==
    IF s = <<>> THEN TRUE
    ELSE IF t = <<>> THEN FALSE
    ELSE IF Head(s) = Head(t) THEN IsSubseq(Tail(s), Tail(t))
    ELSE IsSubseq(s, Tail(t))

----------------------------------------------------------------------------
(* Text: str.lower(), `in`, " ".join *)

UpperCase == <<"A","B","C","D","E","F","G","H","I","J","K","L","M",
               "N","O","P","Q","R","S","T","U","V","W","X","Y","Z">>
LowerCase == <<"a","b","c","d","e","f","g","h","i","j","k","l","m",
               "n","o","p","q","r","s","t","u","v","w","x","y","z">>

LowerChar(c) == IF \E i \in 1..26 : UpperCase[i] = c
                THEN LowerCase[CHOOSE i \in 1..26 : UpperCase[i] = c]
                ELSE c

Lower(t) == [i \in 1..Len(t) |-> LowerChar(t[i])]

\* k in t
Contains(t, k) == \E i \in 0..(Len(t) - Len(k)) : SubSeq(t, i + 1, i + Len(k)) = k

RECURSIVE JoinSpace(_)
JoinSpace(ts) ==
    IF ts = <<>> THEN <<>>
    ELSE IF Len(ts) = 1 THEN ts[1]
    ELSE ts[1] \o <<" ">> \o JoinSpace(Tail(ts))

BLACKLIST_KEYWORDS ==
    <<
       <<"t","r","a","i","l","e","r">>,
       <<"t","e","a","s","e","r">>,
       <<"p","r","o","m","o">>,
       <<"p","r","e","v","i","e","w">>,
       <<"c","l","i","p">>,
       <<"b","e","h","i","n","d"," ","t","h","e"," ","s","c","e","n","e","s">>,
       <<"m","a","k","i","n","g"," ","o","f">>,
       <<"b","r","e","a","k","d","o","w","n">>,
       <<"V","F","X">>,
       <<"t","e","s","t">>,
       <<"d","e","m","o">>,
       <<"r","e","e","l">>,
       <<"s","h","o","w","r","e","e","l">>,
       <<"r","e","c","a","p">>,
       <<"r","e","v","i","e","w">>,
       <<"a","n","a","l","y","s","i","s">>,
       <<"e","s","s","a","y">>,
       <<"c","r","i","t","i","q","u","e">>,
       <<"s","u","p","e","r","c","u","t">>,
       <<"c","o","m","p","i","l","a","t","i","o","n">>,
       <<"m","o","n","t","a","g","e">>,
       <<"t","r","i","b","u","t","e">>,
       <<"h","o","w"," ","t","o">>,
       <<"t","u","t","o","r","i","a","l">>,
       <<"l","e","s","s","o","n">>,
       <<"w","o","r","k","s","h","o","p">>,
       <<"i","n","t","e","r","v","i","e","w">>,
       <<"Q","&","A">>,
       <<"p","a","n","e","l">>,
       <<"d","i","s","c","u","s","s","i","o","n">>,
       <<"o","p","e","n","e","r">>,
       <<"b","u","m","p","e","r">>,
       <<"i","d","e","n","t">>,
       <<"l","o","g","o">>,
       <<"i","n","t","r","o">>,
       <<"c","a","m","p","a","i","g","n">>,
       <<"a","d">>,
       <<"c","o","m","m","e","r","c","i","a","l">>,
       <<"s","p","o","t">>
    >>


----------------------------------------------------------------------------
(* The search collaborator: the video dicts search_videos builds from a page *)

Video(title, url, description, duration, views, tags) ==
    [title |-> title, url |-> url, description |-> description,
     duration |-> duration, views |-> views, tags |-> tags]

Catalog ==
    { Video(<<"k","a","n","e">>, "u1", <<>>, min_duration, 150000, <<>>),
      Video(<<"k","a","n","e">>, "u1", <<>>, min_duration - 1, 150000, <<>>),
      Video(<<"V","F","X">>, "u2", <<"n","o","i","r">>, max_duration, None, <<<<"h","o","w">>>>),
      Video(<<"m">>, "u2", <<>>, max_duration + 1, 0, <<>>),
      Video(<<"A","d">>, "u3", <<>>, 6300, 1000, <<>>),
      Video(<<"m">>, "u3", <<>>, 0, 0, <<>>),
      Video(<<"k","a","n","e">>, "u1", <<"l","o","g","o">>, 6300, 20000, <<>>) }

\* What one GET /videos can give: an error status, an exception (from the
\* request, or from building the dict of a record after `data` were appended),
\* a page without data, or a page of at most per_page records.
PageResponses(per_page) ==
    {[kind |-> "status", data |-> <<>>, next |-> FALSE],
     [kind |-> "empty", data |-> <<>>, next |-> FALSE]}
    \cup {[kind |-> "exception", data |-> d, next |-> FALSE] :
              d \in SeqsUpTo(Catalog, per_page - 1)}
    \cup {[kind |-> "ok", data |-> d, next |-> n] :
              d \in SeqsUpTo(Catalog, per_page) \ {<<>>}, n \in BOOLEAN}

PageFailed(resp) == resp.kind \in {"status", "exception"}

----------------------------------------------------------------------------
(* Stage 1: ComprehensiveMovieFinder.stage1_vimeo_search *)

\* a variant that rejects the two bounds themselves
DurationOKExclusive(duration) == duration > min_duration /\ duration < max_duration

DurationOK(duration) == ~(duration < min_duration) /\ ~(duration > max_duration)

\* a variant that never records the url it kept
RECURSIVE MergeVideosUnseen(_, _)
MergeVideosUnseen(st, vs) ==
    IF vs = <<>> THEN st
    ELSE LET video == Head(vs)
             keep == DurationOK(video.duration) /\ video.url \notin st.seen
         IN MergeVideosUnseen(IF keep
                              THEN [all |-> Append(st.all, video), seen |-> st.seen]
                              ELSE st,
                              Tail(vs))

\* the loop `for video in videos` of stage1_vimeo_search, from state st = [all, seen]
RECURSIVE MergeVideos(_, _)
MergeVideos(st, vs) ==
    IF vs = <<>> THEN st
    ELSE LET video == Head(vs)
             keep == DurationOK(video.duration) /\ video.url \notin st.seen
         IN MergeVideos(IF keep
                        THEN [all |-> Append(st.all, video), seen |-> st.seen \cup {video.url}]
                        ELSE st,
                        Tail(vs))

Returned(list) == [status |-> "returned", value |-> list, error |-> "none"]

\* the history `encountered` after the records `vs` came, in order:
\*   first     for each url, the first record returned with it
\*   first_ok  for each url, the first record returned with it whose duration
\*             lies in [min_duration, max_duration]
RECURSIVE Encounter(_, _)
Encounter(h, vs) ==
    IF vs = <<>> THEN h
    ELSE LET r == Head(vs)
             in_range == min_duration <= r.duration /\ r.duration <= max_duration
         IN Encounter([first |-> IF \E x \in h.first : x.url = r.url
                                THEN h.first ELSE h.first \cup {r},
                      first_ok |-> IF ~in_range \/ \E x \in h.first_ok : x.url = r.url
                                   THEN h.first_ok ELSE h.first_ok \cup {r}],
                      Tail(vs))

NoneEncountered == [first |-> {}, first_ok |-> {}]

NoFetch == [kind |-> "none", page |-> 0]

\* a variant without the `if not videos: return []` guards
ProceedUnguarded(list, next) ==
    /\ pc' = next
    /\ videos' = list
    /\ UNCHANGED outcome

\* a variant of run_full_pipeline that hands the collected list to the classifier
ProceedPastPrefilter(list, next) ==
    /\ pc' = IF list = <<>> THEN "done" ELSE IF next = "stage2" THEN "stage3" ELSE next
    /\ videos' = list
    /\ outcome' = IF list = <<>> THEN Returned(<<>>) ELSE outcome

\* run_full_pipeline: `if not videos: return []` after a stage, else on to `next`
Proceed(list, next) ==
    /\ pc' = IF list = <<>> THEN "done" ELSE next
    /\ videos' = list
    /\ outcome' = IF list = <<>> THEN Returned(<<>>) ELSE outcome

\* a variant that gives up the fetched records when the page fails
FetchedListOrNothing(fetched, resp) ==
    IF resp.kind \in {"status", "exception"} THEN <<>>
    ELSE Take(fetched \o resp.data, PerQueryResults)

\* a variant that appends no record of the page
FetchedListKeepsNone(fetched, resp) == fetched

\* search_videos: the list after the page `resp` was handled, cut as the
\* closing `return videos[:max_results]` cuts it
FetchedList(fetched, resp) == Take(fetched \o resp.data, PerQueryResults)

\* One iteration of the pagination loop of VimeoMovieFinder.search_videos for
\* query qi; when the loop ends, search_videos returns and stage1_vimeo_search
\* merges the list, moves to the next query, and returns after the last one.
search_videos ==
    /\ pc = "stage1"
    /\ qi <= NumQueries
    /\ Len(sv_videos) < PerQueryResults
    /\ \E resp \in PageResponses(Min(PerQueryResults, PerQueryResults - Len(sv_videos))) :
        LET got == FetchedList(sv_videos, resp)
            ends == \/ resp.kind # "ok"
                    \/ ~resp.next
                    \/ ~(Len(got) < PerQueryResults)
            returned == got
            merged == MergeVideos([all |-> all_videos, seen |-> seen_urls], returned)
            last == qi = NumQueries
        IN /\ calls' = [calls EXCEPT !.searched = @ \cup {qi}]
           /\ last_fetch' = [kind |-> resp.kind, page |-> page]
           /\ IF ~ends
              THEN /\ sv_videos' = got
                   /\ page' = page + 1
                   /\ UNCHANGED <<qi, all_videos, seen_urls, encountered, pc, videos,
                                  outcome, stage_log>>
              ELSE /\ sv_videos' = <<>>
                   /\ page' = 1
                   /\ qi' = qi + 1
                   /\ all_videos' = merged.all
                   /\ seen_urls' = merged.seen
                   /\ encountered' = IF entry = "collector"
                                      THEN Encounter(encountered, returned)
                                      ELSE encountered
                   /\ IF last
                      THEN /\ stage_log' = Append(stage_log,
                                  [stage |-> "stage1", in |-> <<>>, out |-> UrlSeq(merged.all)])
                           /\ IF entry = "collector"
                              THEN /\ pc' = "done"
                                   /\ videos' = merged.all
                                   /\ outcome' = Returned(merged.all)
                              ELSE Proceed(merged.all, "stage2")
                      ELSE UNCHANGED <<pc, videos, outcome, stage_log>>
    /\ UNCHANGED <<env, reported, entry, enhanced_videos, bi, skip_stage1, skip_stage2, orig_len,
                   failed_urls, short_urls, last_lookup>>

----------------------------------------------------------------------------
(* Stage 2: ComprehensiveMovieFinder.stage2_keyword_prefilter *)

\* the first keyword of BLACKLIST_KEYWORDS found in the video, 0 if none
matched_keyword(video) ==
    LET title == Lower(Get(video, "title", <<>>))
        description == Lower(Get(video, "description", <<>>))
        tags == [i \in 1..Len(Get(video, "tags", <<>>)) |-> Lower(video.tags[i])]
        hit(keyword) == \/ Contains(title, keyword)
                        \/ Contains(description, keyword)
                        \/ Contains(JoinSpace(tags), keyword)
        hits == {i \in 1..Len(BLACKLIST_KEYWORDS) : hit(BLACKLIST_KEYWORDS[i])}
    IN IF hits = {} THEN 0 ELSE CHOOSE i \in hits : \A j \in hits : i <= j

has_blacklist(video) == matched_keyword(video) # 0

\* a variant that builds the list by inserting at the front
KeywordFilteredReversed(vs) ==
    LET kept == SelectSeq(vs, LAMBDA v : ~has_blacklist(v))
    IN [i \in 1..Len(kept) |-> kept[Len(kept) + 1 - i]]

KeywordFiltered(vs) == SelectSeq(vs, LAMBDA v : ~has_blacklist(v))

stage2_keyword_prefilter ==
    /\ pc = "stage2"
    /\ LET filtered == KeywordFiltered(videos)
       IN /\ stage_log' = Append(stage_log,
                 [stage |-> "stage2", in |-> UrlSeq(videos), out |-> UrlSeq(filtered)])
          /\ Proceed(filtered, "stage3")
    /\ last_fetch' = NoFetch
    /\ all_videos' = <<>>
    /\ seen_urls' = {}
    /\ UNCHANGED <<env, reported, entry, qi, sv_videos, page, enhanced_videos, bi, skip_stage1,
                   skip_stage2, orig_len, failed_urls, short_urls, encountered, calls, last_lookup>>


----------------------------------------------------------------------------
(* The classification collaborator: AIMovieVerifier._call_claude followed by
   json.loads of the text *)

VerdictsStage1 ==
    { [content_type |-> "MOVIE", content_confidence |-> 8, content_reasoning |-> "feature"],
      [content_type |-> "MOVIE", content_confidence |-> 7, content_reasoning |-> "unsure"],
      [content_type |-> "TRAILER", content_confidence |-> 9, content_reasoning |-> "short"] }

VerdictsStage2 ==
    { [is_feature_film |-> TRUE, has_narrative |-> TRUE, narrative_confidence |-> 7,
       film_reasoning |-> "plot"],
      [is_feature_film |-> TRUE, has_narrative |-> TRUE, narrative_confidence |-> 6,
       film_reasoning |-> "unsure"],
      [is_feature_film |-> FALSE, has_narrative |-> FALSE, narrative_confidence |-> 9,
       film_reasoning |-> "documentary"] }

VerdictsStage3 ==
    { [estimated_production_year |-> 1942, estimated_era |-> "1940s", is_pre_1965 |-> TRUE,
       quality_score |-> 9],
      [estimated_production_year |-> None, estimated_era |-> "1950s", is_pre_1965 |-> TRUE,
       quality_score |-> 6],
      [estimated_production_year |-> None, estimated_era |-> "1950s", is_pre_1965 |-> TRUE,
       quality_score |-> 5],
      [estimated_production_year |-> 1970, estimated_era |-> "1970s", is_pre_1965 |-> FALSE,
       quality_score |-> 9] }

\* kind: "transport"   requests raised a RequestException (HTTP error status included):
\*                     _call_claude returns None
\*       "envelope"    the response body has no content[0].text: KeyError / IndexError
\*       "empty_text"  the text is the empty string
\*       "unparseable" json.loads raises JSONDecodeError
\*       "not_array"   json.loads gives a value that is no array of objects
\*       "array"       json.loads gives the array `verdicts`
ClaudeResponses(Verdicts, batch_len) ==
    {[kind |-> k, verdicts |-> <<>>] :
        k \in {"transport", "envelope", "empty_text", "unparseable", "not_array"}}
    \cup {[kind |-> "array", verdicts |-> s] : s \in SeqsUpTo(Verdicts, batch_len + MaxExtra)}

\* `if response_text:` is false
CallFailed(resp) == resp.kind \in {"transport", "empty_text"}

\* the except clause `except json.JSONDecodeError`
ParseFailed(resp) == resp.kind = "unparseable"

\* exceptions no except clause of the sub-stage or of _call_claude catches:
\* KeyError / IndexError / TypeError from result["content"][0]["text"],
\* TypeError / ValueError from zip(batch, classifications) and video.update
Uncaught(resp) == resp.kind \in {"envelope", "not_array"}

\* for video, classification in zip(batch, classifications): video.update(classification)
ZipUpdate(batch, classifications) ==
    [i \in 1..Min(Len(batch), Len(classifications)) |-> Update(batch[i], classifications[i])]

----------------------------------------------------------------------------
(* Stage 3: AIMovieVerifier, the three sub-stages and verify_full_pipeline *)

\* a variant with >= in place of >
KeepStage1Inclusive(v) == /\ Has(v, "content_type") /\ v.content_type = "MOVIE"
                          /\ Get(v, "content_confidence", 0) >= 7

KeepStage1(v) == /\ Has(v, "content_type") /\ v.content_type = "MOVIE"
                 /\ Get(v, "content_confidence", 0) > 7

KeepStage2(v) == /\ Has(v, "is_feature_film") /\ v.is_feature_film = TRUE
                 /\ Get(v, "narrative_confidence", 0) > 6

\* a variant without the quality threshold
KeepStage3AnyQuality(v) == Has(v, "is_pre_1965") /\ v.is_pre_1965 = TRUE

KeepStage3(v) == /\ Has(v, "is_pre_1965") /\ v.is_pre_1965 = TRUE
                 /\ Get(v, "quality_score", 0) >= 6

\* the entry of `stage` in the log
LogEntry(log, stage) == log[CHOOSE i \in 1..Len(log) : log[i].stage = stage]

Raise(error) ==
    /\ pc' = "raised"
    /\ outcome' = [status |-> "raised", value |-> <<>>, error |-> error]

\* verify_full_pipeline returns `list` to its caller: to stage3_ai_classification,
\* which returns it to run_full_pipeline, or to the caller of the verifier
ReturnFromVerifier(list, log) ==
    IF entry = "pipeline"
    THEN /\ stage_log' = Append(log, [stage |-> "stage3",
                                       in |-> LogEntry(log, "stage2").out,
                                       out |-> UrlSeq(list)])
         /\ Proceed(list, "stage4")
    ELSE /\ stage_log' = log
         /\ pc' = "done"
         /\ videos' = list
         /\ outcome' = Returned(list)

\* a variant without the `if not results: return []` guards
AfterSubStageUnguarded(name, out, log) ==
    CASE name = "ai1" ->
            /\ pc' = IF skip_stage2 THEN "ai3" ELSE "ai2"
            /\ videos' = out
            /\ stage_log' = log
            /\ UNCHANGED outcome
      [] name = "ai2" ->
            /\ pc' = "ai3"
            /\ videos' = out
            /\ stage_log' = log
            /\ UNCHANGED outcome
      [] name = "ai3" ->
            IF orig_len = 0
            THEN Raise("ZeroDivisionError") /\ stage_log' = log /\ UNCHANGED videos
            ELSE ReturnFromVerifier(out, log)

\* verify_full_pipeline after sub-stage `name` returned `out`
AfterSubStage(name, out, log) ==
    CASE name = "ai1" ->
            IF out = <<>> THEN ReturnFromVerifier(<<>>, log)
            ELSE /\ pc' = IF skip_stage2 THEN "ai3" ELSE "ai2"
                 /\ videos' = out
                 /\ stage_log' = log
                 /\ UNCHANGED outcome
      [] name = "ai2" ->
            IF out = <<>> THEN ReturnFromVerifier(<<>>, log)
            ELSE /\ pc' = "ai3"
                 /\ videos' = out
                 /\ stage_log' = log
                 /\ UNCHANGED outcome
      [] name = "ai3" ->
            \* len(results)/len(videos)*100 in the closing print
            IF orig_len = 0
            THEN Raise("ZeroDivisionError") /\ stage_log' = log /\ UNCHANGED videos
            ELSE ReturnFromVerifier(out, log)

SubStageEntry(name, in, out, failed) ==
    [stage |-> name, in |-> UrlSeq(in), out |-> UrlSeq(out), failed |-> failed]

\* the closing filter of the sub-stage `name`
Keep(name, v) ==
    IF name = "ai1" THEN KeepStage1(v)
    ELSE IF name = "ai2" THEN KeepStage2(v)
    ELSE KeepStage3(v)

\* One iteration of the batch loop of a sub-stage (one classification call);
\* after the last batch the sub-stage filters and returns, and
\* verify_full_pipeline goes on.
ClassifyBatch(name, batch_size, Verdicts) ==
    /\ pc = name
    /\ bi < Len(videos)
    /\ LET batch == SubSeq(videos, bi + 1, Min(bi + batch_size, Len(videos)))
       IN \E resp \in ClaudeResponses(Verdicts, Len(batch)) :
          LET passthrough == CallFailed(resp) \/ ParseFailed(resp)
              enhanced == enhanced_videos \o
                            (IF passthrough THEN batch ELSE ZipUpdate(batch, resp.verdicts))
              failed == failed_urls \cup (IF passthrough THEN Urls(batch) ELSE {})
              short == short_urls \cup
                         (IF resp.kind = "array" /\ Len(resp.verdicts) # Len(batch)
                          THEN Urls(batch) ELSE {})
              ends == ~(bi + batch_size < Len(videos))
              out == SelectSeq(enhanced, LAMBDA v : Keep(name, v))
          IN /\ calls' = [calls EXCEPT ![name] = @ + 1]
             /\ IF Uncaught(resp)
                THEN /\ Raise(resp.kind)
                     /\ UNCHANGED <<videos, enhanced_videos, bi, failed_urls, short_urls,
                                    stage_log>>
                ELSE IF ~ends
                THEN /\ enhanced_videos' = enhanced
                     /\ bi' = bi + batch_size
                     /\ failed_urls' = failed
                     /\ short_urls' = short
                     /\ UNCHANGED <<pc, videos, outcome, stage_log>>
                ELSE /\ enhanced_videos' = <<>>
                     /\ bi' = 0
                     /\ failed_urls' = {}
                     /\ short_urls' = {}
                     /\ AfterSubStage(name, out,
                            Append(stage_log,
                                   SubStageEntry(name, videos, out, failed)))
    /\ UNCHANGED <<env, reported, entry, qi, sv_videos, page, all_videos, seen_urls, skip_stage1,
                   skip_stage2, orig_len, last_fetch, encountered, last_lookup>>

stage1_content_type_detection ==
    ClassifyBatch("ai1", BatchSize1, VerdictsStage1)

stage2_feature_film_analysis ==
    ClassifyBatch("ai2", BatchSize2, VerdictsStage2)

stage3_era_studio_verification ==
    ClassifyBatch("ai3", BatchSize3, VerdictsStage3)

\* A sub-stage called with an empty list: range(0, 0, batch_size) is empty, no
\* call is issued, the filter keeps nothing
substage_on_empty_list ==
    /\ pc \in {"ai1", "ai2", "ai3"}
    /\ videos = <<>>
    /\ AfterSubStage(pc, <<>>,
           Append(stage_log, SubStageEntry(pc, <<>>, <<>>, {})))
    /\ UNCHANGED <<env, reported, entry, qi, sv_videos, page, all_videos, seen_urls, enhanced_videos, bi,
                   skip_stage1, skip_stage2, orig_len, failed_urls, short_urls, last_fetch,
                   encountered, calls, last_lookup>>

\* ComprehensiveMovieFinder.stage3_ai_classification calls verify_full_pipeline(videos)
stage3_ai_classification ==
    /\ pc = "stage3"
    /\ pc' = "ai1"
    /\ orig_len' = Len(videos)
    /\ UNCHANGED <<env, reported, entry, qi, sv_videos, page, all_videos, seen_urls, videos,
                   enhanced_videos, bi, skip_stage1, skip_stage2, outcome, failed_urls,
                   short_urls, last_fetch, encountered, calls, stage_log, last_lookup>>


----------------------------------------------------------------------------
(* The cross-reference collaborator and TMDbVerifier *)

CLASSIC_STUDIOS ==
    {
      <<"M","e","t","r","o","-","G","o","l","d","w","y","n","-","M","a","y","e","r">>,
      <<"M","G","M">>,
      <<"P","a","r","a","m","o","u","n","t">>,
      <<"P","a","r","a","m","o","u","n","t"," ","P","i","c","t","u","r","e","s">>,
      <<"W","a","r","n","e","r"," ","B","r","o","s",".">>,
      <<"W","a","r","n","e","r"," ","B","r","o","t","h","e","r","s">>,
      <<"U","n","i","v","e","r","s","a","l">>,
      <<"U","n","i","v","e","r","s","a","l"," ","P","i","c","t","u","r","e","s">>,
      <<"2","0","t","h"," ","C","e","n","t","u","r","y"," ","F","o","x">>,
      <<"2","0","t","h"," ","C","e","n","t","u","r","y","-","F","o","x">>,
      <<"T","w","e","n","t","i","e","t","h"," ","C","e","n","t","u","r","y"," ","F","o","x">>,
      <<"R","K","O">>,
      <<"R","K","O"," ","R","a","d","i","o"," ","P","i","c","t","u","r","e","s">>,
      <<"C","o","l","u","m","b","i","a"," ","P","i","c","t","u","r","e","s">>,
      <<"C","o","l","u","m","b","i","a">>,
      <<"U","n","i","t","e","d"," ","A","r","t","i","s","t","s">>,
      <<"R","e","p","u","b","l","i","c"," ","P","i","c","t","u","r","e","s">>,
      <<"M","o","n","o","g","r","a","m"," ","P","i","c","t","u","r","e","s">>,
      <<"A","l","l","i","e","d"," ","A","r","t","i","s","t","s">>,
      <<"A","m","e","r","i","c","a","n"," ","I","n","t","e","r","n","a","t","i","o","n","a","l"," ","P","i","c","t","u","r","e","s">>,
      <<"A","I","P">>,
      <<"S","e","l","z","n","i","c","k"," ","I","n","t","e","r","n","a","t","i","o","n","a","l"," ","P","i","c","t","u","r","e","s">>,
      <<"T","h","e"," ","C","r","i","t","e","r","i","o","n"," ","C","o","l","l","e","c","t","i","o","n">>,
      <<"B","r","i","t","i","s","h"," ","F","i","l","m"," ","I","n","s","t","i","t","u","t","e">>,
      <<"E","a","l","i","n","g"," ","S","t","u","d","i","o","s">>,
      <<"H","a","m","m","e","r"," ","F","i","l","m"," ","P","r","o","d","u","c","t","i","o","n","s">>,
      <<"P","a","t","h","é">>,
      <<"G","a","u","m","o","n","t">>,
      <<"U","F","A">>,
      <<"M","o","s","f","i","l","m">>,
      <<"T","o","h","o">>
    }

\* classic_studio.lower() for every classic studio
ClassicStudiosLower == {Lower(classic_studio) : classic_studio \in CLASSIC_STUDIOS}

\* TMDbVerifier.is_classic_studio: the names of the companies that contain a
\* classic studio name, compared in lower case
matching_studios(production_companies) ==
    SelectSeq([i \in 1..Len(production_companies) |-> production_companies[i].name],
              LAMBDA company_name :
                  LET name == Lower(company_name)
                  IN \E classic_studio \in ClassicStudiosLower :
                        Contains(name, classic_studio))

\* A result of search_movie.  `similarity` stands for the result's title: it is
\* the ratio calculate_title_similarity gives for it against the video's title.
Matches ==
    { [id |-> 11, similarity |-> 0],
      [id |-> 12, similarity |-> 59],
      [id |-> 13, similarity |-> 60],
      [id |-> 14, similarity |-> 85],
      [id |-> 15, similarity |-> 100] }

\* search_movie: [] on a RequestException, else data["results"]
SearchResponses == SeqsUpTo(Matches, MaxMatches)

Details(release_date, companies, runtime) ==
    [release_date |-> release_date,
     production_companies |-> [i \in 1..Len(companies) |-> [name |-> companies[i]]],
     runtime |-> runtime]

NoDetails == [release_date |-> <<>>, production_companies |-> <<>>, runtime |-> None,
              failed |-> TRUE]

\* get_movie_details: None on a RequestException (NoDetails), else the movie
DetailsResponses ==
    { NoDetails,
      Details(<<"1","9","6","4","-","1","2">>, <<<<"M","G","M">>>>, 45),
      Details(<<"1","9","6","5","-","0","1">>, <<<<"W","a","r","n","e","r"," ","B","r","o","s",".">>>>, 180),
      Details(<<"1","9","6","4","-","0","1">>, <<<<"A","c","m","e">>>>, None),
      Details(<<>>, <<<<"R","K","O"," ","R","a","d","i","o">>>>, 55),
      Details(<<"1","9","x","x">>, <<>>, 56) }

Digits == <<"0","1","2","3","4","5","6","7","8","9">>

IsDigit(c) == \E i \in 1..10 : Digits[i] = c

DigitValue(c) == (CHOOSE i \in 1..10 : Digits[i] = c) - 1

\* int(text) of a text of decimal digits; None where int raises ValueError
RECURSIVE ParseInt(_)
ParseInt(text) ==
    IF text = <<>> \/ \E i \in 1..Len(text) : ~IsDigit(text[i]) THEN None
    ELSE IF Len(text) = 1 THEN DigitValue(text[1])
    ELSE 10 * ParseInt(SubSeq(text, 1, Len(text) - 1)) + DigitValue(text[Len(text)])

Abs(x) == IF x < 0 THEN 0 - x ELSE x

\* the loop of verify_movie that picks the best match: the first result of
\* the greatest similarity above 0.0; 0 if there is none
RECURSIVE BestMatchFrom(_, _, _, _)
BestMatchFrom(search_results, i, best, best_similarity) ==
    IF i > Len(search_results) THEN best
    ELSE IF search_results[i].similarity > best_similarity
         THEN BestMatchFrom(search_results, i + 1, i, search_results[i].similarity)
         ELSE BestMatchFrom(search_results, i + 1, best, best_similarity)

BestMatch(search_results) == BestMatchFrom(search_results, 1, 0, 0)

BestSimilarity(search_results) ==
    IF BestMatch(search_results) = 0 THEN 0
    ELSE search_results[BestMatch(search_results)].similarity

\* a variant that also rejects a similarity of exactly 0.6
TooDissimilarInclusive(search_results) ==
    BestMatch(search_results) = 0 \/ BestSimilarity(search_results) <= 60

\* verify_movie: `if best_match is None or best_similarity < 0.6`
TooDissimilar(search_results) ==
    BestMatch(search_results) = 0 \/ BestSimilarity(search_results) < 60

\* verify_movie: int(release_date[:4]) of a non-empty release date; None when
\* the date is empty or int raises ValueError
ReleaseYear(release_date) ==
    IF release_date = <<>> THEN None ELSE ParseInt(Take(release_date, 4))

\* a variant with the cutoff year included
IsPre1965Inclusive(release_year) == release_year # None /\ release_year <= 1965

IsPre1965(release_year) == release_year # None /\ release_year < 1965

\* a variant that scores the studio 30 and the era 20
ConfidenceSwapped(best_similarity, is_pre_1965, is_classic, runtime_match) ==
    Min(4 * best_similarity
        + (IF is_pre_1965 THEN 200 ELSE 0)
        + (IF is_classic THEN 300 ELSE 0)
        + (IF runtime_match THEN 100 ELSE 0), 1000)

\* verify_movie: the confidence, in tenths of a point, of a similarity given
\* in hundredths
Confidence(best_similarity, is_pre_1965, is_classic, runtime_match) ==
    Min(4 * best_similarity
        + (IF is_pre_1965 THEN 300 ELSE 0)
        + (IF is_classic THEN 200 ELSE 0)
        + (IF runtime_match THEN 100 ELSE 0), 1000)

\* a variant without the era gate
VerifiedWithoutEra(best_similarity, is_pre_1965, is_classic) ==
    is_classic \/ best_similarity >= 85

Verified(best_similarity, is_pre_1965, is_classic) ==
    is_pre_1965 /\ (is_classic \/ best_similarity >= 85)

\* a variant whose record claims a verification
UnverifiedButFlagged(reason) ==
    [verified |-> TRUE, confidence |-> 0, tmdb_id |-> None, release_year |-> None,
     is_pre_1965 |-> FALSE, production_companies |-> <<>>, is_classic_studio |-> FALSE,
     runtime_minutes |-> None, runtime_match |-> FALSE, title_similarity |-> 0,
     match_reason |-> reason]

\* verify_movie: the record it starts from and returns early
Unverified(reason) ==
    [verified |-> FALSE, confidence |-> 0, tmdb_id |-> None, release_year |-> None,
     is_pre_1965 |-> FALSE, production_companies |-> <<>>, is_classic_studio |-> FALSE,
     runtime_minutes |-> None, runtime_match |-> FALSE, title_similarity |-> 0,
     match_reason |-> reason]

\* TMDbVerifier.verify_movie, given what search_movie and get_movie_details answer
verify_movie(vimeo_duration_seconds, search_results, movie_details) ==
    LET best == BestMatch(search_results)
        best_similarity == BestSimilarity(search_results)
        release_year == ReleaseYear(movie_details.release_date)
        is_pre_1965 == IsPre1965(release_year)
        studio_names == matching_studios(movie_details.production_companies)
        is_classic == Len(studio_names) > 0
        has_runtime == movie_details.runtime # None /\ movie_details.runtime # 0
        runtime_match == /\ has_runtime
                         /\ Abs(movie_details.runtime * 60 - vimeo_duration_seconds) <= 600
        confidence == Confidence(best_similarity, is_pre_1965, is_classic, runtime_match)
        verified == Verified(best_similarity, is_pre_1965, is_classic)
    IN IF search_results = <<>> THEN Unverified("No TMDb match found")
       ELSE IF TooDissimilar(search_results) THEN Unverified("Best title match too low")
       ELSE IF Has(movie_details, "failed") THEN Unverified("Could not fetch movie details")
       ELSE [verified |-> verified,
             confidence |-> confidence,
             tmdb_id |-> search_results[best].id,
             release_year |-> release_year,
             is_pre_1965 |-> is_pre_1965,
             production_companies |->
                 IF is_classic THEN studio_names
                 ELSE [i \in 1..Min(3, Len(movie_details.production_companies)) |->
                          movie_details.production_companies[i].name],
             is_classic_studio |-> is_classic,
             runtime_minutes |-> IF has_runtime THEN movie_details.runtime ELSE None,
             runtime_match |-> runtime_match,
             title_similarity |-> best_similarity,
             match_reason |-> IF verified THEN "Verified classic movie: pre-1965"
                              ELSE IF is_pre_1965
                                   THEN "Pre-1965 but uncertain studio/title match"
                                   ELSE "Released after 1965 cutoff"]

\* batch_verify: the year_hint it passes to verify_movie, which passes it to
\* search_movie as `year`
year_hint(video) == Get(video, "estimated_year", None)

HighConfidence(v) ==
    Get(Get(v, "tmdb_verification", [confidence |-> 0]), "confidence", 0)
        >= min_tmdb_confidence

\* Stage 4: one iteration of the loop of TMDbVerifier.batch_verify (the title
\* search and, for an accepted match, the details fetch); after the last video
\* batch_verify returns and stage4_tmdb_verification filters by confidence.
\* When batch_verify is run alone its list is the result.
stage4_tmdb_verification ==
    /\ pc = "stage4"
    /\ bi < Len(videos)
    /\ LET video == videos[bi + 1]
       IN \E search_results \in SearchResponses :
          LET fetches == ~TooDissimilar(search_results)
          IN \E movie_details \in (IF fetches THEN DetailsResponses ELSE {NoDetails}) :
             LET verification == verify_movie(Get(video, "duration", 0), search_results,
                                              movie_details)
                 results == Append(enhanced_videos,
                                   Update(video, [tmdb_verification |-> verification]))
                 ends == ~(bi + 1 < Len(videos))
                 high_confidence == SelectSeq(results, HighConfidence)
             IN /\ calls' = [calls EXCEPT !.tmdb_search = @ + 1,
                                          !.tmdb_details = @ + (IF fetches THEN 1 ELSE 0)]
                /\ last_lookup' = IF entry = "batch_verify"
                                   THEN [search_results |-> search_results,
                                         fetched |-> fetches,
                                         movie_details |-> movie_details,
                                         year_hint |-> year_hint(video)]
                                   ELSE [last_lookup EXCEPT !.year_hint = year_hint(video)]
                /\ IF ~ends
                   THEN /\ enhanced_videos' = results
                        /\ bi' = bi + 1
                        /\ UNCHANGED <<pc, videos, outcome, stage_log>>
                   ELSE IF entry = "batch_verify"
                   THEN /\ enhanced_videos' = results
                        /\ bi' = bi + 1
                        /\ stage_log' = Append(stage_log,
                               [stage |-> "batch_verify", in |-> UrlSeq(videos),
                                out |-> UrlSeq(results)])
                        /\ pc' = "done"
                        /\ outcome' = Returned(results)
                        /\ UNCHANGED videos
                   ELSE /\ enhanced_videos' = <<>>
                        /\ bi' = 0
                        /\ stage_log' = Append(stage_log,
                               [stage |-> "stage4", in |-> UrlSeq(videos),
                                out |-> UrlSeq(high_confidence)])
                        /\ Proceed(high_confidence, "stage5")
    /\ UNCHANGED <<env, reported, entry, qi, sv_videos, page, all_videos, seen_urls, skip_stage1,
                   skip_stage2, orig_len, failed_urls, short_urls, last_fetch, encountered>>


----------------------------------------------------------------------------
(* Stage 5: ComprehensiveMovieFinder.stage5_scoring_ranking *)

\* x / d rounded to the nearest integer, for x >= 0
RoundDiv(x, d) == (2 * x + d) \div (2 * d)

duration_bonus(duration) ==
    IF 70 * 60 <= duration /\ duration <= 120 * 60 THEN 100
    ELSE IF 60 * 60 <= duration /\ duration <= 150 * 60 THEN 70
    ELSE IF 45 * 60 <= duration /\ duration <= 180 * 60 THEN 40
    ELSE 0

\* a variant whose bands exclude their lower bounds
popularity_bonus_exclusive(views) ==
    IF views > 100000 THEN 100
    ELSE IF views > 50000 THEN 70
    ELSE IF views > 10000 THEN 50
    ELSE IF views > 1000 THEN 30
    ELSE 0

popularity_bonus(views) ==
    IF views >= 100000 THEN 100
    ELSE IF views >= 50000 THEN 70
    ELSE IF views >= 10000 THEN 50
    ELSE IF views >= 1000 THEN 30
    ELSE 0

\* x or 0
OrZero(x) == IF x = None THEN 0 ELSE x

final_score(video) ==
    LET ai_quality == Get(video, "quality_score", 0)
        tmdb == Get(video, "tmdb_verification", [confidence |-> 0, verified |-> FALSE])
    IN RoundDiv(10 * (40 * ai_quality) + 3 * tmdb.confidence, 10)
       + duration_bonus(OrZero(Get(video, "duration", None)))
       + popularity_bonus(OrZero(Get(video, "views", None)))
       + (IF tmdb.verified THEN 100 ELSE 0)

\* a variant that puts a video before the videos of the same score
RECURSIVE InsertDescUnstable(_, _)
InsertDescUnstable(sorted, v) ==
    IF sorted = <<>> THEN <<v>>
    ELSE IF Head(sorted).final_score > v.final_score
         THEN <<Head(sorted)>> \o InsertDescUnstable(Tail(sorted), v)
         ELSE <<v>> \o sorted

\* list.sort(key = final_score, reverse = True): descending and stable
RECURSIVE InsertDesc(_, _)
InsertDesc(sorted, v) ==
    IF sorted = <<>> THEN <<v>>
    ELSE IF Head(sorted).final_score >= v.final_score
         THEN <<Head(sorted)>> \o InsertDesc(Tail(sorted), v)
         ELSE <<v>> \o sorted

RECURSIVE SortDesc(_)
SortDesc(vs) ==
    IF vs = <<>> THEN <<>>
    ELSE InsertDesc(SortDesc(SubSeq(vs, 1, Len(vs) - 1)), vs[Len(vs)])

Ranked(vs) ==
    SortDesc([i \in 1..Len(vs) |-> Update(vs[i], [final_score |-> final_score(vs[i])])])

stage5_scoring_ranking ==
    /\ pc = "stage5"
    /\ IF entry = "ranker"
       THEN pc' = "done" /\ outcome' = Returned(Ranked(videos))
       ELSE pc' = "stage6" /\ UNCHANGED outcome
    /\ videos' = Ranked(videos)
    /\ stage_log' = Append(stage_log, [stage |-> "stage5", in |-> UrlSeq(videos),
                                         out |-> UrlSeq(Ranked(videos))])
    /\ calls' = [calls EXCEPT !.scored = @ + 1]
    /\ UNCHANGED <<env, reported, entry, qi, sv_videos, page, all_videos, seen_urls, enhanced_videos, bi,
                   skip_stage1, skip_stage2, orig_len, failed_urls, short_urls,
                   last_fetch, encountered, last_lookup>>

(* Stage 6: ComprehensiveMovieFinder.stage6_export, and the return of
   run_full_pipeline *)

stage6_export ==
    /\ pc = "stage6"
    /\ pc' = "done"
    /\ calls' = [calls EXCEPT !.exported = @ + 1]
    /\ outcome' = Returned(videos)
    /\ UNCHANGED <<env, reported, entry, qi, sv_videos, page, all_videos, seen_urls, videos,
                   enhanced_videos, bi, skip_stage1, skip_stage2, orig_len, failed_urls,
                   short_urls, last_fetch, encountered, stage_log, last_lookup>>

----------------------------------------------------------------------------
(* Specifications *)

----------------------------------------------------------------------------
(* vimeo_scraper_no_api.py: VimeoScraper.search_videos                        *)

ScrapeMaxResults == 2   \* max_results of VimeoScraper.search_videos (50 in the source)
MaxLinks == 2           \* links matching ^/\d+ on one result page
ScrapeMaxPages == 3     \* `page` is kept at this value once it has reached it: it
                        \* enters the request's URL only, and this value stands
                        \* for every later page

\* href values that match re.compile(r'^/\d+')
ScrapeLinks ==
    { <<"/", "1", "2", "3", "4", "5", "6">>,
      <<"/", "1", "2", "3", "4", "5", "6", "/">>,
      <<"/", "6", "5", "4", "3", "2", "1">>,
      <<"/", "7", "7", "7", "7", "7", "7">>,
      <<"/", "1", "2", "3", "4", "5">>,
      <<"/", "1", "2", "3", "4", "5", "6", "-", "a">> }

\* kind: "status"     response.status_code != 200
\*       "exception"  requests.get (timeout included) or the parser raised
\*       "page"       a page with the links `links`, possibly none
ScrapeResponses ==
    {[kind |-> k, links |-> <<>>] : k \in {"status", "exception"}}
    \cup {[kind |-> "page", links |-> l] : l \in SeqsUpTo(ScrapeLinks, MaxLinks)}

\* str.strip('/')
RECURSIVE StripSlashes(_)
StripSlashes(t) ==
    IF t = <<>> THEN t
    ELSE IF Head(t) = "/" THEN StripSlashes(Tail(t))
    ELSE IF t[Len(t)] = "/" THEN StripSlashes(SubSeq(t, 1, Len(t) - 1))
    ELSE t

\* video_id.isdigit() and len(video_id) > 5
ValidVideoId(video_id) ==
    /\ video_id # <<>>
    /\ \A i \in 1..Len(video_id) : IsDigit(video_id[i])
    /\ Len(video_id) > 5

\* the loop `for link in video_links` of VimeoScraper.search_videos
RECURSIVE CollectLinks(_, _)
CollectLinks(vids, video_links) ==
    IF video_links = <<>> \/ Len(vids) >= ScrapeMaxResults THEN vids
    ELSE LET video_id == StripSlashes(Head(video_links))
             video_url == <<"/">> \o video_id
             fresh == /\ ValidVideoId(video_id)
                      /\ ~\E i \in 1..Len(vids) : vids[i].url = video_url
         IN CollectLinks(IF fresh
                         THEN Append(vids, [url |-> video_url, video_id |-> video_id])
                         ELSE vids,
                         Tail(video_links))

\* One iteration of the pagination loop of VimeoScraper.search_videos; when
\* the loop ends, search_videos returns videos[:max_results].
scraper_search_videos ==
    /\ pc = "scrape"
    /\ Len(sv_videos) < ScrapeMaxResults
    /\ \E resp \in ScrapeResponses :
        LET got == IF resp.kind = "page" THEN CollectLinks(sv_videos, resp.links)
                   ELSE sv_videos
            ends == \/ resp.kind # "page"
                    \/ resp.links = <<>>
                    \/ Len(got) >= ScrapeMaxResults
        IN /\ last_fetch' = [kind |-> resp.kind, page |-> page, links |-> resp.links]
           /\ sv_videos' = got
           /\ IF ends
              THEN /\ pc' = "done"
                   /\ outcome' = Returned(Take(got, ScrapeMaxResults))
                   /\ UNCHANGED page
              ELSE /\ page' = Min(page + 1, ScrapeMaxPages)
                   /\ UNCHANGED <<pc, outcome>>
    /\ UNCHANGED <<env, reported, entry, qi, all_videos, seen_urls, videos, enhanced_videos,
                   bi, skip_stage1, skip_stage2, orig_len, failed_urls, short_urls,
                   last_lookup, encountered, calls, stage_log>>

----------------------------------------------------------------------------
(* ai_enhanced_finder.py: AIEnhancedMovieFinder.classify_with_ai and          *)
(* filter_by_relevance, as main calls them                                    *)

EnhancedBatchSize == 2   \* batch_size of classify_with_ai (10 in the source)

\* min_score as main passes it
min_score == 5

\* the elements a classification array can hold: objects with or without a
\* relevance_score, and a JSON value that is no object
EnhancedVerdicts ==
    { [is_old_movie |-> TRUE, estimated_era |-> "1940s", relevance_score |-> 9],
      [is_old_movie |-> TRUE, estimated_era |-> "1950s", relevance_score |-> 5],
      [is_old_movie |-> FALSE, estimated_era |-> "modern", relevance_score |-> 4],
      [is_old_movie |-> TRUE, estimated_era |-> "1920s"],
      [not_an_object |-> TRUE] }

\* kind: "status"     response.status_code != 200
\*       "exception"  requests.post, response.json, result["content"][0]["text"]
\*                    or json.loads raised, or the value is not iterable
\*       "array"      json.loads gave the array `verdicts`
EnhancedResponses(batch_len) ==
    {[kind |-> k, verdicts |-> <<>>] : k \in {"status", "exception"}}
    \cup {[kind |-> "array", verdicts |-> s] :
             s \in SeqsUpTo(EnhancedVerdicts, batch_len + MaxExtra)}

\* for video, classification in zip(batch, classifications):
\*     enhanced_videos.append({**video, **classification})
\* and, when {**video, **classification} raises on an element that is no
\* object, the except clause's enhanced_videos.extend(batch)
MergeBatch(batch, classifications) ==
    LET n == Min(Len(batch), Len(classifications))
        bad == {i \in 1..n : Has(classifications[i], "not_an_object")}
        merged == [i \in 1..n |-> Update(batch[i], classifications[i])]
    IN IF bad = {} THEN merged
       ELSE LET k == CHOOSE i \in bad : \A j \in bad : i <= j
            IN SubSeq(merged, 1, k - 1) \o batch

\* one iteration of the loop of classify_with_ai; after the last one main
\* passes the list to filter_by_relevance
classify_with_ai ==
    /\ pc = "classify"
    /\ bi < Len(videos)
    /\ LET batch == SubSeq(videos, bi + 1, Min(bi + EnhancedBatchSize, Len(videos)))
       IN \E resp \in EnhancedResponses(Len(batch)) :
          /\ enhanced_videos' = enhanced_videos \o
                (IF resp.kind = "array" THEN MergeBatch(batch, resp.verdicts) ELSE batch)
          /\ failed_urls' = failed_urls \cup
                (IF resp.kind = "array" THEN {} ELSE Urls(batch))
          /\ bi' = bi + EnhancedBatchSize
          /\ pc' = IF bi + EnhancedBatchSize < Len(videos) THEN "classify" ELSE "filter"
    /\ UNCHANGED <<env, reported, entry, qi, sv_videos, page, all_videos, seen_urls, videos,
                   skip_stage1, skip_stage2, orig_len, outcome, short_urls, last_fetch,
                   last_lookup, encountered, calls, stage_log>>

\* filter_by_relevance(enhanced_videos, min_score), whose result main keeps
filter_by_relevance ==
    /\ pc = "filter"
    /\ LET filtered == SelectSeq(enhanced_videos,
                           LAMBDA v : Get(v, "relevance_score", 0) >= min_score)
       IN outcome' = Returned(IF enhanced_videos = <<>>
                                  \/ ~Has(enhanced_videos[1], "relevance_score")
                               THEN enhanced_videos ELSE filtered)
    /\ pc' = "done"
    /\ UNCHANGED <<env, reported, entry, qi, sv_videos, page, all_videos, seen_urls, videos,
                   enhanced_videos, bi, skip_stage1, skip_stage2, orig_len, failed_urls,
                   short_urls, last_fetch, last_lookup, encountered, calls, stage_log>>

\* main(): the three credentials it reads from the environment
REQUIRED_KEYS == {"VIMEO_API_TOKEN", "ANTHROPIC_API_KEY", "TMDB_API_KEY"}

\* what os.getenv can give: None when the variable is unset, else its text
EnvValues == {"None", "", "key"}

AllSet == [k \in REQUIRED_KEYS |-> "key"]

MissingIgnoringTmdb(e) ==
    {k \in {"VIMEO_API_TOKEN", "ANTHROPIC_API_KEY"} : e[k] \in {"None", ""}}

\* main: the list `missing`, `not value` being true of None and of ""
Missing(e) == {k \in REQUIRED_KEYS : e[k] \in {"None", ""}}

\* main(), up to the call of run_full_pipeline
main ==
    /\ pc = "main"
    /\ IF Missing(env) # {}
       THEN /\ reported' = Missing(env)
            /\ pc' = "done"
            /\ outcome' = Returned(<<>>)
       ELSE /\ pc' = "stage1"
            /\ UNCHANGED <<reported, outcome>>
    /\ UNCHANGED <<env, entry, qi, sv_videos, page, all_videos, seen_urls, videos,
                   enhanced_videos, bi, skip_stage1, skip_stage2, orig_len,
                   failed_urls, short_urls, last_fetch, last_lookup, encountered,
                   calls, stage_log>>

NoLookup == [search_results |-> <<>>, fetched |-> FALSE, movie_details |-> NoDetails,
             year_hint |-> None]

NoCalls == [searched |-> {}, ai1 |-> 0, ai2 |-> 0, ai3 |-> 0,
            tmdb_search |-> 0, tmdb_details |-> 0, scored |-> 0, exported |-> 0]

InitLocals ==
    /\ reported = {}
    /\ qi = 1
    /\ sv_videos = <<>>
    /\ page = 1
    /\ all_videos = <<>>
    /\ seen_urls = {}
    /\ enhanced_videos = <<>>
    /\ bi = 0
    /\ outcome = [status |-> "running", value |-> <<>>, error |-> "none"]
    /\ failed_urls = {}
    /\ short_urls = {}
    /\ last_fetch = NoFetch
    /\ last_lookup = NoLookup
    /\ encountered = NoneEncountered
    /\ calls = NoCalls
    /\ stage_log = <<>>

\* run_full_pipeline() as main() calls it
Init ==
    /\ env = AllSet
    /\ pc = "stage1"
    /\ entry = "pipeline"
    /\ videos = <<>>
    /\ skip_stage1 = FALSE
    /\ skip_stage2 = FALSE
    /\ orig_len = 0
    /\ InitLocals

Next ==
    \/ search_videos
    \/ stage2_keyword_prefilter
    \/ stage3_ai_classification
    \/ stage1_content_type_detection
    \/ stage2_feature_film_analysis
    \/ stage3_era_studio_verification
    \/ stage4_tmdb_verification
    \/ stage5_scoring_ranking
    \/ stage6_export

Spec == Init /\ [][Next]_vars

\* main(), for every setting of the three credentials
InitMain ==
    /\ env \in [REQUIRED_KEYS -> EnvValues]
    /\ pc = "main"
    /\ entry = "pipeline"
    /\ videos = <<>>
    /\ skip_stage1 = FALSE
    /\ skip_stage2 = FALSE
    /\ orig_len = 0
    /\ InitLocals

NextMain ==
    \/ main
    \/ Next

SpecMain == InitMain /\ [][NextMain]_vars

\* stage1_vimeo_search(queries) alone
InitCollect ==
    /\ env = AllSet
    /\ pc = "stage1"
    /\ entry = "collector"
    /\ videos = <<>>
    /\ skip_stage1 = FALSE
    /\ skip_stage2 = FALSE
    /\ orig_len = 0
    /\ InitLocals

NextCollect == search_videos

SpecCollect == InitCollect /\ [][NextCollect]_vars

\* search_videos(query) alone, as stage1_vimeo_search calls it for its last
\* query, every page request being answered and the single thread of the
\* program running on
InitSearch ==
    /\ env = AllSet
    /\ pc = "stage1"
    /\ entry = "collector"
    /\ videos = <<>>
    /\ skip_stage1 = FALSE
    /\ skip_stage2 = FALSE
    /\ orig_len = 0
    /\ reported = {}
    /\ qi = NumQueries
    /\ sv_videos = <<>>
    /\ page = 1
    /\ all_videos = <<>>
    /\ seen_urls = {}
    /\ enhanced_videos = <<>>
    /\ bi = 0
    /\ outcome = [status |-> "running", value |-> <<>>, error |-> "none"]
    /\ failed_urls = {}
    /\ short_urls = {}
    /\ last_fetch = NoFetch
    /\ last_lookup = NoLookup
    /\ encountered = NoneEncountered
    /\ calls = NoCalls
    /\ stage_log = <<>>

SpecSearchLive == InitSearch /\ [][NextCollect]_vars /\ WF_vars(NextCollect)

\* verify_full_pipeline(videos, skip_stage1, skip_stage2) alone, on lists of
\* fresh videos of pairwise distinct urls
VerifierVideos == {v \in Catalog : v.duration \in {min_duration, max_duration, 0}}

VerifierInputs ==
    {s \in SeqsUpTo(VerifierVideos, MaxInput) :
        \A i, j \in 1..Len(s) : i < j => s[i].duration > s[j].duration}

InitVerify ==
    /\ env = AllSet
    /\ entry = "verifier"
    /\ videos \in VerifierInputs
    /\ skip_stage1 \in BOOLEAN
    /\ skip_stage2 \in BOOLEAN
    /\ pc = IF ~skip_stage1 THEN "ai1" ELSE IF ~skip_stage2 THEN "ai2" ELSE "ai3"
    /\ orig_len = Len(videos)
    /\ InitLocals

NextVerify ==
    \/ stage1_content_type_detection
    \/ stage2_feature_film_analysis
    \/ stage3_era_studio_verification
    \/ substage_on_empty_list

SpecVerify == InitVerify /\ [][NextVerify]_vars


\* TMDbVerifier.batch_verify(videos) alone, on non-empty lists of videos of
\* pairwise distinct urls (on the empty list the loop body never runs)
InitBatchVerify ==
    /\ env = AllSet
    /\ entry = "batch_verify"
    /\ videos \in VerifierInputs \ {<<>>}
    /\ skip_stage1 = FALSE
    /\ skip_stage2 = FALSE
    /\ pc = "stage4"
    /\ orig_len = Len(videos)
    /\ InitLocals

NextBatchVerify == stage4_tmdb_verification

SpecBatchVerify == InitBatchVerify /\ [][NextBatchVerify]_vars

\* main of ai_enhanced_finder.py from `if CLAUDE_API_KEY:` on, with the key
\* set, on non-empty lists of videos of pairwise distinct urls
InitEnhanced ==
    /\ env = AllSet
    /\ entry = "ai_enhanced"
    /\ videos \in VerifierInputs \ {<<>>}
    /\ skip_stage1 = FALSE
    /\ skip_stage2 = FALSE
    /\ pc = "classify"
    /\ orig_len = Len(videos)
    /\ InitLocals

NextEnhanced ==
    \/ classify_with_ai
    \/ filter_by_relevance

SpecEnhanced == InitEnhanced /\ [][NextEnhanced]_vars

\* VimeoScraper.search_videos(query, max_results) alone
InitScrape ==
    /\ env = AllSet
    /\ entry = "scraper"
    /\ pc = "scrape"
    /\ videos = <<>>
    /\ skip_stage1 = FALSE
    /\ skip_stage2 = FALSE
    /\ orig_len = 0
    /\ InitLocals

NextScrape == scraper_search_videos

SpecScrape == InitScrape /\ [][NextScrape]_vars

\* the same, every request being answered and the single thread running on
SpecScrapeLive == SpecScrape /\ WF_vars(NextScrape)

\* A candidate as the ranking stage can receive it: the fields the classifier
\* and the cross-reference stage attached, or not
Scored(url, duration, views, quality, verification) ==
    LET base == [title |-> <<"m">>, url |-> url, duration |-> duration, views |-> views]
        q == IF quality = None THEN base ELSE Update(base, [quality_score |-> quality])
    IN IF verification = <<>> THEN q
       ELSE Update(q, [tmdb_verification |->
                          [confidence |-> verification[1], verified |-> verification[2]]])

ScoredVideos ==
    { Scored("s1", 6300, 150000, 9, <<900, TRUE>>),
      Scored("s2", 70 * 60, 100000, 10, <<1000, TRUE>>),
      Scored("s3", 120 * 60 + 1, 99999, 6, <<744, TRUE>>),
      Scored("s4", 60 * 60, 50000, 6, <<700, FALSE>>),
      Scored("s5", 150 * 60 + 1, 49999, 9, <<>>),
      Scored("s6", 45 * 60, 10000, None, <<850, TRUE>>),
      Scored("s7", 180 * 60, 9999, 7, <<744, FALSE>>),
      Scored("s8", 180 * 60 + 1, 1000, 11, <<1000, TRUE>>),
      Scored("s9", 45 * 60 - 1, 999, 8, <<800, TRUE>>),
      Scored("s10", None, None, 9, <<900, TRUE>>),
      Scored("s11", 105 * 60, 150000, 11, <<1000, TRUE>>),
      Scored("s12", None, 10000, 9, <<700, TRUE>>),
      Scored("s13", 45 * 60 - 1, 999, 8, <<1000, TRUE>>) }

\* stage5_scoring_ranking(videos) alone, on lists of pairwise distinct urls
InitRank ==
    /\ env = AllSet
    /\ entry = "ranker"
    /\ videos \in {s \in SeqsUpTo(ScoredVideos, MaxScored) :
                      \A i, j \in 1..Len(s) : i # j => s[i].url # s[j].url}
    /\ skip_stage1 = FALSE
    /\ skip_stage2 = FALSE
    /\ pc = "stage5"
    /\ orig_len = Len(videos)
    /\ InitLocals

NextRank == stage5_scoring_ranking

SpecRank == InitRank /\ [][NextRank]_vars

----------------------------------------------------------------------------
(* Properties *)

SubStages == {"ai1", "ai2", "ai3"}

LogIndex == 1..Len(stage_log)

IsPrefix(s, t) == Len(s) <= Len(t) /\ SubSeq(t, 1, Len(s)) = s

NoDuplicates(s) == \A i, j \in 1..Len(s) : i # j => s[i] # s[j]

IsPermutation(s, t) ==
    /\ Len(s) = Len(t)
    /\ \A x \in Range(s) \cup Range(t) :
          Cardinality({i \in 1..Len(s) : s[i] = x}) = Cardinality({i \in 1..Len(t) : t[i] = x})

\* C1 (as claimed): in every sub-stage, the candidates of a batch whose
\* classification call failed (no text, or text that does not parse) are all
\* in the list the sub-stage returns.
C1_FailedBatchIsReturned ==
    \A i \in LogIndex :
        stage_log[i].stage \in SubStages => stage_log[i].failed \subseteq Range(stage_log[i].out)

\* C2: the list a sub-stage returned holds only candidates that satisfy both
\* conditions of its retention predicate: MOVIE and confidence > 0.7 after
\* stage 1, feature film and narrative confidence > 0.6 after stage 2,
\* pre-1965 and quality score >= 6 after stage 3.
C2_ReturnedSatisfyRetention ==
    /\ (~skip_stage1 /\ pc \in {"ai2", "ai3"}) =>
          \A i \in 1..Len(videos) :
              /\ Has(videos[i], "content_type") /\ videos[i].content_type = "MOVIE"
              /\ Has(videos[i], "content_confidence") /\ videos[i].content_confidence > 7
    /\ (~skip_stage2 /\ pc = "ai3") =>
          \A i \in 1..Len(videos) :
              /\ Has(videos[i], "is_feature_film") /\ videos[i].is_feature_film = TRUE
              /\ Has(videos[i], "narrative_confidence") /\ videos[i].narrative_confidence > 6
    /\ (pc = "done" /\ outcome.status = "returned") =>
          \A i \in 1..Len(outcome.value) :
              /\ Has(outcome.value[i], "is_pre_1965") /\ outcome.value[i].is_pre_1965 = TRUE
              /\ Has(outcome.value[i], "quality_score") /\ outcome.value[i].quality_score >= 6

\* all three sub-stages ran and returned a candidate whose quality score is exactly 6
C2_Witness ==
    /\ pc = "done" /\ outcome.status = "returned"
    /\ ~skip_stage1 /\ ~skip_stage2
    /\ \E i \in 1..Len(outcome.value) : outcome.value[i].quality_score = 6

\* C3 (as claimed): a candidate of a batch whose response held too few or too
\* many verdicts is carried on unmodified, as after a transport error: no
\* verdict is attached to it and it is not left out.
C3_WrongCountIsFailure ==
    \A i \in 1..Len(videos) :
        (pc \in SubStages /\ videos[i].url \in short_urls) =>
            videos[i] \in Range(enhanced_videos)

\* C4 (as claimed): no outcome of a classification call makes a sub-stage raise.
C4_ClassificationNeverRaises ==
    outcome.status # "raised"

\* C5: once sub-stage 1 or 2 has returned an empty list, verify_full_pipeline
\* has returned the empty list, no later sub-stage was entered and none of its
\* classification calls was issued; a sub-stage that follows another one only
\* ever runs on a non-empty list.
C5_HaltsOnEmptySubStage ==
    /\ \A i \in LogIndex :
          /\ (stage_log[i].stage \in {"ai1", "ai2"} /\ stage_log[i].out = <<>>) =>
                /\ i = Len(stage_log)
                /\ pc = "done"
                /\ outcome = Returned(<<>>)
                /\ calls.ai3 = 0
                /\ stage_log[i].stage = "ai1" => calls.ai2 = 0
          /\ i > 1 => stage_log[i].in # <<>>
    /\ (pc \in SubStages /\ stage_log # <<>>) => videos # <<>>

\* sub-stage 1 was given candidates, kept none, and the verifier has returned
C5_Witness ==
    /\ pc = "done"
    /\ \E i \in LogIndex :
          stage_log[i].stage = "ai1" /\ stage_log[i].in # <<>> /\ stage_log[i].out = <<>>
    /\ calls.ai1 > 0

\* C6: once a stage of run_full_pipeline (collection, pre-filter, classifier,
\* cross-reference) has yielded an empty list, the run has returned the empty
\* list and nothing later ran: no later collaborator call, no scoring, no export.
C6_EmptyStageEndsRun ==
    \A i \in LogIndex :
        (stage_log[i].stage \in {"stage1", "stage2", "stage3", "stage4"}
         /\ stage_log[i].out = <<>>) =>
            /\ i = Len(stage_log)
            /\ pc = "done"
            /\ outcome = Returned(<<>>)
            /\ calls.scored = 0 /\ calls.exported = 0
            /\ calls.tmdb_search = 0 \/ stage_log[i].stage = "stage4"
            /\ (calls.ai1 = 0 /\ calls.ai2 = 0 /\ calls.ai3 = 0)
               \/ stage_log[i].stage \in {"stage3", "stage4"}

\* the cross-reference stage was given candidates and kept none
C6_Witness ==
    /\ pc = "done"
    /\ \E i \in LogIndex :
          stage_log[i].stage = "stage4" /\ stage_log[i].in # <<>> /\ stage_log[i].out = <<>>

\* C7: the output of the pre-filter, of each classifier sub-stage, of the
\* classifier and of the cross-reference stage is a duplicate-free subsequence
\* of its input; the ranking stage returns a permutation of its input; a
\* candidate a stage dropped is in no later stage's output.
C7_StagesNarrowInOrder ==
    \A i \in LogIndex :
        LET e == stage_log[i]
        IN /\ e.stage \in {"stage2", "ai1", "ai2", "ai3", "stage3", "stage4"} =>
                  IsSubseq(e.out, e.in) /\ NoDuplicates(e.out)
           /\ e.stage = "stage5" => IsPermutation(e.out, e.in)
           /\ e.stage # "stage1" =>
                  \A j \in LogIndex :
                      j > i => Range(stage_log[j].out) \cap (Range(e.in) \ Range(e.out)) = {}

\* two candidates reached the ranking stage, which swapped them, after some
\* earlier stage had dropped a candidate
C7_Witness ==
    /\ \E i \in LogIndex :
          /\ stage_log[i].stage = "stage5"
          /\ Len(stage_log[i].in) = 2
          /\ stage_log[i].out # stage_log[i].in
    /\ \E i \in LogIndex :
          stage_log[i].stage = "stage2" /\ Len(stage_log[i].out) < Len(stage_log[i].in)

\* C8 (as claimed): the collected list has no two candidates of the same url,
\* and the record kept for a url is the first record of that url that any
\* search returned.
C8_FirstEncounteredIsKept ==
    /\ NoDuplicates(UrlSeq(all_videos))
    /\ \A i \in 1..Len(all_videos) : all_videos[i] \in encountered.first

\* C8 (amended): the collected list has no two candidates of the same url, and
\* the record kept for a url is, field for field, the first record of that
\* url whose duration passes the range filter.
C8_FirstInRangeIsKept ==
    /\ NoDuplicates(UrlSeq(all_videos))
    /\ \A i \in 1..Len(all_videos) : all_videos[i] \in encountered.first_ok

\* a url came first with a duration outside the range and later with one
\* inside it, and the collection is over
C8_Witness ==
    /\ pc = "done"
    /\ \E r \in encountered.first, s \in encountered.first_ok :
          r.url = s.url /\ r # s /\ s \in Range(all_videos)

\* C9: every collected candidate has min_duration <= duration <= max_duration
\* (so durations 0, min_duration - 1 and max_duration + 1 are rejected), and
\* every url that was returned with a duration in that range, the two bounds
\* included, is among the collected candidates.
C9_DurationFilter ==
    /\ \A i \in 1..Len(all_videos) :
          min_duration <= all_videos[i].duration /\ all_videos[i].duration <= max_duration
    /\ \A r \in encountered.first_ok : r.url \in Urls(all_videos)

\* records of duration min_duration - 1 and 0 were returned and are not among
\* the candidates, and records of duration min_duration and max_duration are
\* (the catalog's record of duration max_duration + 1 takes the place of one of
\* the four in other runs)
C9_Witness ==
    /\ pc = "done"
    /\ \E i \in 1..Len(all_videos) : all_videos[i].duration = max_duration
    /\ \E i \in 1..Len(all_videos) : all_videos[i].duration = min_duration
    /\ \E r \in encountered.first : r.duration = min_duration - 1
    /\ \E r \in encountered.first : r.duration = 0

\* C10: a step of the collector in which a page fetch fails (error status or
\* exception) ends the search of that query with the records fetched before
\* it kept (those within the duration range are among the collected
\* candidates), and leaves the collector about to search the next query, if
\* there is one; when the collection is over every query was searched.
C10_FailedFetchKeepsPartial ==
    /\ [][(pc = "stage1" /\ last_fetch'.kind \in {"status", "exception"}) =>
             /\ \A i \in 1..Len(sv_videos) :
                   (min_duration <= sv_videos[i].duration
                    /\ sv_videos[i].duration <= max_duration)
                       => sv_videos[i].url \in Urls(all_videos')
             /\ qi' = qi + 1
             /\ qi < NumQueries => (pc' = "stage1" /\ sv_videos' = <<>>)]_vars
    /\ [](pc = "done" => calls.searched = 1..NumQueries)

\* the second page of the first query failed with an error status after the
\* first page had brought a record within the range, which was collected;
\* the second query is next
C10_Witness ==
    /\ last_fetch = [kind |-> "status", page |-> 2]
    /\ qi = 2
    /\ pc = "stage1"
    /\ all_videos # <<>>

\* some term of the denylist occurs in the lower-cased title, description or
\* space-joined tags of the video, the comparison ignoring case
DenylistHit(video) ==
    LET title == Lower(Get(video, "title", <<>>))
        description == Lower(Get(video, "description", <<>>))
        tags == [i \in 1..Len(Get(video, "tags", <<>>)) |-> Lower(video.tags[i])]
    IN \E i \in 1..Len(BLACKLIST_KEYWORDS) :
          LET term == Lower(BLACKLIST_KEYWORDS[i])
          IN \/ Contains(title, term)
             \/ Contains(description, term)
             \/ Contains(JoinSpace(tags), term)

Logged(stage) == \E i \in LogIndex : stage_log[i].stage = stage

\* C12: a classification call is only issued once every query was searched
\* and the pre-filter has returned; a cross-reference call is only issued
\* once the classifier has returned; and no candidate handed to the
\* classifier has a denylist keyword the pre-filter matches.
C12_StrictlyStaged ==
    /\ (calls.ai1 + calls.ai2 + calls.ai3 > 0 \/ pc \in SubStages \cup {"stage3"}) =>
          /\ calls.searched = 1..NumQueries
          /\ qi = NumQueries + 1 /\ sv_videos = <<>>
          /\ Logged("stage1") /\ Logged("stage2")
    /\ (calls.tmdb_search > 0 \/ pc = "stage4") =>
          /\ Logged("stage3")
          /\ pc \notin SubStages \cup {"stage1", "stage2", "stage3"}
    /\ pc \in SubStages \cup {"stage3"} =>
          \A v \in Range(videos) \cup Range(enhanced_videos) : ~has_blacklist(v)
    /\ \A i, j \in LogIndex :
          (stage_log[i].stage = "stage2" /\ j > i /\ stage_log[j].stage \in SubStages) =>
              Range(stage_log[j].in) \cap (Range(stage_log[i].in) \ Range(stage_log[i].out)) = {}

\* the pre-filter dropped a candidate, then classification calls and a
\* cross-reference call were issued
C12_Witness ==
    /\ \E i \in LogIndex :
          stage_log[i].stage = "stage2" /\ Len(stage_log[i].out) < Len(stage_log[i].in)
    /\ calls.ai1 > 0 /\ calls.ai3 > 0
    /\ calls.tmdb_search > 0

\* the verification record of the video verified last, and what the
\* collaborator answered for it
LastRecord == enhanced_videos[Len(enhanced_videos)].tmdb_verification

MaxSimilarity(search_results) ==
    IF search_results = <<>> THEN 0
    ELSE CHOOSE s \in {search_results[i].similarity : i \in 1..Len(search_results)} :
            \A i \in 1..Len(search_results) : search_results[i].similarity <= s

Accepted(record) == record.tmdb_id # None

\* C13: the details of a match are fetched exactly when the search returned
\* something and the best similarity is at least 0.6 (exactly 0.6 included);
\* the record carries the match exactly when that fetch was made and
\* succeeded; every other record is unverified: verified false, no tmdb_id,
\* confidence 0.
C13_AcceptsFromSixtyPercent ==
    (entry = "batch_verify" /\ enhanced_videos # <<>>) =>
        /\ last_lookup.fetched <=>
              /\ last_lookup.search_results # <<>>
              /\ MaxSimilarity(last_lookup.search_results) >= 60
        /\ Accepted(LastRecord) <=>
              last_lookup.fetched /\ ~Has(last_lookup.movie_details, "failed")
        /\ \A i \in 1..Len(enhanced_videos) :
              LET record == enhanced_videos[i].tmdb_verification
              IN IF Accepted(record)
                 THEN record.title_similarity >= 60
                 ELSE record.verified = FALSE /\ record.confidence = 0

\* a match of similarity exactly 0.6 was accepted, after an earlier video of
\* the batch got an unverified record
C13_Witness ==
    /\ entry = "batch_verify"
    /\ Len(enhanced_videos) >= 2
    /\ Accepted(LastRecord) /\ LastRecord.title_similarity = 60
    /\ \E i \in 1..Len(enhanced_videos) - 1 :
          ~Accepted(enhanced_videos[i].tmdb_verification)

\* the verification records attached so far
Records == {enhanced_videos[i].tmdb_verification : i \in 1..Len(enhanced_videos)}

\* C14: in every verification record, verified is true exactly when
\* is_pre_1965 is true and (is_classic_studio is true or title_similarity is
\* at least 0.85); so it is never true when is_pre_1965 is false.
C14_VerifiedIffEraAndStudioOrTitle ==
    entry = "batch_verify" =>
        \A record \in Records :
            /\ record.verified <=>
                  /\ record.is_pre_1965
                  /\ record.is_classic_studio \/ record.title_similarity >= 85
            /\ ~record.is_pre_1965 => ~record.verified

\* one record is verified on a title similarity of exactly 0.85 without a
\* classic studio, another is not verified although its similarity is 1.0 and
\* its studio is classic, because it is not pre-1965
C14_Witness ==
    /\ entry = "batch_verify"
    /\ \E record \in Records :
          /\ record.verified /\ record.title_similarity = 85
          /\ ~record.is_classic_studio
    /\ \E record \in Records :
          /\ ~record.verified /\ record.title_similarity = 100
          /\ record.is_classic_studio /\ ~record.is_pre_1965

Points(flag, points) == IF flag THEN points ELSE 0

\* C15: the confidence of a record that carries a match is 40 times its title
\* similarity plus 30 if pre-1965, 20 if from a classic studio and 10 if the
\* runtime matches, capped at 100; it lies between 0 and 100 (here in tenths
\* of a point, the similarity in hundredths).
C15_ConfidenceFormula ==
    entry = "batch_verify" =>
        \A record \in Records :
            /\ Accepted(record) =>
                  record.confidence =
                      Min(4 * record.title_similarity
                          + Points(record.is_pre_1965, 300)
                          + Points(record.is_classic_studio, 200)
                          + Points(record.runtime_match, 100), 1000)
            /\ 0 <= record.confidence /\ record.confidence <= 1000

\* one record has all four terms and a confidence of 100, another has a
\* similarity of 0.6 and nothing else, a confidence of 24
C15_Witness ==
    /\ entry = "batch_verify"
    /\ \E record \in Records :
          /\ record.title_similarity = 100 /\ record.is_pre_1965
          /\ record.is_classic_studio /\ record.runtime_match
          /\ record.confidence = 1000
    /\ \E record \in Records :
          /\ Accepted(record) /\ record.confidence = 240

\* C16: in a record that carries a match, is_pre_1965 is true exactly when
\* the release year is known and less than 1965; the release year is the
\* number the first four characters of the release date spell, and is
\* unknown, with the flag false, when the date is missing or those
\* characters are not a number.
C16_PreCutoffFlag ==
    entry = "batch_verify" =>
        /\ \A record \in Records :
              /\ record.is_pre_1965 <=>
                    (record.release_year # None /\ record.release_year < 1965)
              /\ record.release_year = 1964 => record.is_pre_1965
              /\ record.release_year = 1965 => ~record.is_pre_1965
        /\ (enhanced_videos # <<>> /\ Accepted(LastRecord)) =>
              LET release_date == last_lookup.movie_details.release_date
                  year == Take(release_date, 4)
                  parses == year # <<>> /\ \A i \in 1..Len(year) : IsDigit(year[i])
              IN IF parses
                 THEN LastRecord.release_year = ParseInt(year)
                 ELSE LastRecord.release_year = None /\ ~LastRecord.is_pre_1965

\* records of release years 1964 and 1965 and a record of a match whose
\* year is unknown
C16_Witness ==
    /\ entry = "batch_verify"
    /\ \E record \in Records : record.release_year = 1964 /\ record.is_pre_1965
    /\ \E record \in Records : record.release_year = 1965 /\ ~record.is_pre_1965
    /\ \E record \in Records :
          Accepted(record) /\ record.release_year = None /\ ~record.is_pre_1965

\* the search or the details fetch for the video verified last gave nothing
LookupFailed ==
    \/ last_lookup.search_results = <<>>
    \/ last_lookup.fetched /\ Has(last_lookup.movie_details, "failed")

\* C17: batch_verify never raises on a failed search or details fetch: the
\* video concerned gets an unverified record, the loop goes on to every later
\* video (one search per video), and the list returned has one entry per
\* input video, in input order, each the input video with a verification
\* record added.
C17_BatchSurvivesFailures ==
    entry = "batch_verify" =>
        /\ outcome.status # "raised"
        /\ calls.tmdb_search = Len(enhanced_videos)
        /\ IsPrefix(UrlSeq(enhanced_videos), UrlSeq(videos))
        /\ (enhanced_videos # <<>> /\ LookupFailed) =>
              /\ ~Accepted(LastRecord) /\ ~LastRecord.verified
              /\ Len(enhanced_videos) < Len(videos) => pc = "stage4"
        /\ pc = "done" <=> Len(enhanced_videos) = Len(videos)
        /\ pc = "done" =>
              /\ outcome.status = "returned"
              /\ Len(outcome.value) = Len(videos)
              /\ \A i \in 1..Len(videos) :
                    /\ Has(outcome.value[i], "tmdb_verification")
                    /\ outcome.value[i] =
                          Update(videos[i],
                                 [tmdb_verification |-> outcome.value[i].tmdb_verification])

\* of three videos the first got an unverified record, the second was
\* verified, and the details fetch failed for the third
C17_Witness ==
    /\ entry = "batch_verify"
    /\ pc = "done"
    /\ Len(outcome.value) = 3
    /\ ~Accepted(outcome.value[1].tmdb_verification)
    /\ outcome.value[2].tmdb_verification.verified
    /\ last_lookup.fetched /\ Has(last_lookup.movie_details, "failed")

\* C18 (as claimed): every candidate that enters stage4_tmdb_verification is
\* in the list the stage returns.
C18_CrossReferenceDropsNone ==
    \A i \in LogIndex :
        stage_log[i].stage = "stage4" => stage_log[i].out = stage_log[i].in

\* the bonuses as the bands state them, in points, for a duration in seconds
\* and a view count, unknown values counting as 0
BandDuration(video) ==
    LET s == IF Has(video, "duration") /\ video.duration # None THEN video.duration ELSE 0
    IN IF 70 * 60 <= s /\ s <= 120 * 60 THEN 10
       ELSE IF 60 * 60 <= s /\ s <= 150 * 60 THEN 7
       ELSE IF 45 * 60 <= s /\ s <= 180 * 60 THEN 4
       ELSE 0

BandPopularity(video) ==
    LET v == IF Has(video, "views") /\ video.views # None THEN video.views ELSE 0
    IN IF v >= 100000 THEN 10
       ELSE IF v >= 50000 THEN 7
       ELSE IF v >= 10000 THEN 5
       ELSE IF v >= 1000 THEN 3
       ELSE 0

\* 40*(quality_score/10) + 30*(tmdb_confidence/100) + duration_bonus +
\* popularity_bonus + (10 if verified), in hundredths of a point
FormulaHundredths(video) ==
    LET quality == IF Has(video, "quality_score") THEN video.quality_score ELSE 0
        known == Has(video, "tmdb_verification")
        confidence == IF known THEN video.tmdb_verification.confidence ELSE 0
        verified == known /\ video.tmdb_verification.verified
    IN 400 * quality + 3 * confidence
       + 100 * BandDuration(video) + 100 * BandPopularity(video)
       + (IF verified THEN 1000 ELSE 0)

RankedAlone == entry = "ranker" /\ pc = "done"

\* C19 (as claimed): the final score of every candidate equals the formula.
C19_ScoreEqualsFormula ==
    RankedAlone =>
        \A i \in 1..Len(videos) : 10 * videos[i].final_score = FormulaHundredths(videos[i])

\* C19 (amended): the final score of every candidate is the value of the
\* formula rounded to one decimal place: it is a whole number of tenths and
\* differs from the formula by at most 0.05.
C19_ScoreIsFormulaRounded ==
    RankedAlone =>
        \A i \in 1..Len(videos) :
            LET d == 10 * videos[i].final_score - FormulaHundredths(videos[i])
            IN 0 - 5 <= d /\ d <= 5

\* the candidate of 6300 s, quality 9, confidence 90, verified, 150000 views
\* was scored 93.0, next to a candidate whose formula value, 70.32, is no
\* whole number of tenths
C19_Witness ==
    /\ RankedAlone
    /\ \E i \in 1..Len(videos) :
          /\ videos[i].duration = 6300 /\ videos[i].quality_score = 9
          /\ videos[i].tmdb_verification = [confidence |-> 900, verified |-> TRUE]
          /\ videos[i].views = 150000
          /\ videos[i].final_score = 930
    /\ \E i \in 1..Len(videos) : FormulaHundredths(videos[i]) % 10 # 0

\* C20 (as claimed): the final score attached by stage5_scoring_ranking lies
\* in [0, 100], whatever fields the candidate carries.
C20_ScoreWithinRange ==
    RankedAlone =>
        \A i \in 1..Len(videos) :
            0 <= videos[i].final_score /\ videos[i].final_score <= 1000

Position(s, x) == CHOOSE k \in 1..Len(s) : s[k] = x

\* C21: the list stage5_scoring_ranking returns is in descending order of
\* final score, and two candidates of equal final score are in the order
\* they had in the list the stage was given.
C21_DescendingAndStable ==
    RankedAlone =>
        LET given == stage_log[Len(stage_log)].in
        IN \A i, j \in 1..Len(videos) :
              i < j =>
                  /\ videos[i].final_score >= videos[j].final_score
                  /\ videos[i].final_score = videos[j].final_score =>
                        Position(given, videos[i].url) < Position(given, videos[j].url)

\* two candidates of final score 72.0 were ranked
C21_Witness ==
    /\ RankedAlone
    /\ Len(videos) = 2
    /\ videos[1].final_score = 720 /\ videos[2].final_score = 720
    /\ videos[1].url = "s13"

\* C22: when a credential is missing from the environment, main reports the
\* missing ones and returns before any stage: no external call is ever
\* issued, no stage runs and nothing is exported.
C22_NoStartWithoutCredentials ==
    (\E k \in REQUIRED_KEYS : env[k] \in {"None", ""}) =>
        /\ pc \in {"main", "done"}
        /\ calls = NoCalls
        /\ stage_log = <<>>
        /\ pc = "done" =>
              /\ reported = {k \in REQUIRED_KEYS : env[k] \in {"None", ""}}
              /\ outcome = Returned(<<>>)

\* main returned with only the cross-reference key missing, set to ""
C22_Witness ==
    /\ pc = "done"
    /\ env["VIMEO_API_TOKEN"] = "key" /\ env["ANTHROPIC_API_KEY"] = "key"
    /\ env["TMDB_API_KEY"] = ""
    /\ reported = {"TMDB_API_KEY"}

BatchSizeOf(name) ==
    IF name = "ai1" THEN BatchSize1 ELSE IF name = "ai2" THEN BatchSize2 ELSE BatchSize3

CeilDiv(n, d) == (n + d - 1) \div d

\* C23: a classifier sub-stage cuts its input into consecutive slices of
\* batch_size candidates and sends each slice exactly once: while it runs it
\* has issued one call per slice before its loop variable, and once it is
\* over, having returned or raised, it has issued ceil(n / batch_size) calls
\* for its n candidates.
C23_OneCallPerBatch ==
    \A name \in SubStages :
        /\ pc = name => calls[name] * BatchSizeOf(name) = bi
        /\ Logged(name) =>
              calls[name] = CeilDiv(Len(LogEntry(stage_log, name).in), BatchSizeOf(name))
        /\ (pc = "raised" /\ outcome.error \in {"envelope", "not_array"}
              /\ calls[name] > 0 /\ ~Logged(name)) =>
              calls[name] = CeilDiv(Len(videos), BatchSizeOf(name))

\* C24: the title search for a candidate that carries an estimated production
\* year from classifier sub-stage C is issued with that year as its hint.
C24_SearchHintsEstimatedYear ==
    [][(pc = "stage4" /\ Get(videos[bi + 1], "estimated_production_year", None) # None) =>
          last_lookup'.year_hint = videos[bi + 1].estimated_production_year]_vars

\* C25: no video of the list filter_by_relevance returns for the output of
\* classify_with_ai carries a relevance_score below min_score.
C25_NoneBelowMinScore ==
    (entry = "ai_enhanced" /\ pc = "done") =>
        \A i \in 1..Len(outcome.value) :
            Has(outcome.value[i], "relevance_score") =>
                outcome.value[i].relevance_score >= min_score

\* C26: search_videos terminates whatever the server answers.  Each
\* iteration of its pagination loop either leaves the loop, search_videos
\* returning at most max_results records, or appends at least one record and
\* asks for the next page; so before the request of page p it holds at least
\* p - 1 and fewer than max_results records, p is at most max_results, and
\* the search comes to its end.
C26_SearchTerminates ==
    /\ [][pc = "stage1" =>
             \/ /\ qi' = qi + 1
                /\ Len(all_videos') <= Len(all_videos) + PerQueryResults
             \/ /\ qi' = qi
                /\ Len(sv_videos') > Len(sv_videos)
                /\ page' = page + 1]_vars
    /\ [](pc = "stage1" =>
             /\ page - 1 <= Len(sv_videos)
             /\ Len(sv_videos) < PerQueryResults
             /\ page <= PerQueryResults)
    /\ <>(pc = "done")

\* the page request number max_results of a query was issued and answered
\* with a record, every page before it having brought one record
C26_Witness ==
    /\ last_fetch = [kind |-> "ok", page |-> PerQueryResults]
    /\ qi > 1
    /\ Len(all_videos) >= PerQueryResults

\* C27: VimeoScraper.search_videos terminates whatever pages the server
\* returns: its pagination loop is eventually left and the list is returned.
C27_ScraperTerminates ==
    <>(pc = "done")

\* C28: every candidate of the list run_full_pipeline returns has a
\* cross-reference record whose is_pre_1965 is true.
C28_ReturnedArePreCutoff ==
    (entry = "pipeline" /\ outcome.status = "returned") =>
        \A i \in 1..Len(outcome.value) :
            /\ Has(outcome.value[i], "tmdb_verification")
            /\ outcome.value[i].tmdb_verification.is_pre_1965

\* C29: every candidate of the list run_full_pipeline returns, whatever the
\* collaborators answered, has a duration within the range, the verdict MOVIE
\* with content confidence above 0.7, the verdict feature film with narrative
\* confidence above 0.6, the classifier's verdict pre-1965 with a quality
\* score of at least 6, a cross-reference confidence of at least 70 and a
\* final score; so it carries the verdict of every sub-stage.
C29_ReturnedPassedEveryStage ==
    (entry = "pipeline" /\ outcome.status = "returned") =>
        \A i \in 1..Len(outcome.value) :
            LET v == outcome.value[i]
            IN /\ min_duration <= v.duration /\ v.duration <= max_duration
               /\ Has(v, "content_type") /\ v.content_type = "MOVIE"
               /\ Has(v, "content_confidence") /\ v.content_confidence > 7
               /\ Has(v, "is_feature_film") /\ v.is_feature_film
               /\ Has(v, "narrative_confidence") /\ v.narrative_confidence > 6
               /\ Has(v, "is_pre_1965") /\ v.is_pre_1965
               /\ Has(v, "quality_score") /\ v.quality_score >= 6
               /\ Has(v, "tmdb_verification")
               /\ v.tmdb_verification.confidence >= min_tmdb_confidence
               /\ Has(v, "final_score")

\* the pipeline returned one candidate, scored, of the two that reached the
\* cross-reference stage: the title search of the other one brought no
\* acceptable match, as it does when it fails
C29_Witness ==
    /\ entry = "pipeline" /\ outcome.status = "returned"
    /\ Len(outcome.value) = 1
    /\ Has(outcome.value[1], "final_score")
    /\ calls.tmdb_search = 2 /\ calls.tmdb_details = 1

\* C30: verify_full_pipeline never raises when it was given an empty list,
\* whatever the skip flags, and then returns the empty list; nor does it
\* raise when sub-stage C has returned an empty list.
C30_EmptyNeverRaises ==
    entry = "verifier" =>
        /\ orig_len = 0 =>
              /\ outcome.status # "raised"
              /\ pc = "done" => outcome = Returned(<<>>)
        /\ (Logged("ai3") /\ LogEntry(stage_log, "ai3").out = <<>>) =>
              outcome.status # "raised"

====
